---- MODULE Spec2Model ----
(***************************************************************************)
(* pflask netif.c: the pending interface list (add_netif / do_netif), the  *)
(* four rtnetlink request builders, the attribute encoder they share and   *)
(* the blocking send/receive exchange with the kernel.                     *)
(*                                                                         *)
(* Names and attribute payloads are byte sequences.  A message buffer is   *)
(* the struct's fields plus a byte map of the attribute region; a byte     *)
(* that was never written reads as the garbage the allocator left there.   *)
(***************************************************************************)
EXTENDS Integers, Sequences, FiniteSets, TLC

VARIABLES
    netifs,      \* static netif_list *netifs: head first
    pc,          \* position of the calling process
    i,           \* do_netif: the reversed list still to process
    pid,         \* do_netif: its argument
    if_index,    \* do_netif: local if_index
    sock,        \* the netlink socket of the running call: "closed" / "open"
    rcvq,        \* replies queued on the socket and not yet received
    links,       \* kernel: interfaces of the caller's namespace, name -> index
    nslinks,     \* kernel: interfaces of the target process's namespace
    heap,        \* the byte malloc() leaves in memory it hands out
    reqs,        \* request buffers malloc()'d and not yet freed
    registered,  \* history: every action registered, in call order
    sent,        \* history: every request handed to sendmsg(), in order
    recvd,       \* history: every reply returned by recvmsg(), in order
    lookups,     \* history: every if_nametoindex() call, name and result
    err,         \* why the process terminated, "" while it has not
    calls,       \* history: every do_netif / setup_loopback call, in order
    nenv,        \* events outside the normal course so far
    req,         \* builder under single-step: the message buffer
    cursor,      \* builder under single-step: the struct rtattr * locals
    job,         \* builder under single-step: which builder, with which arguments
    ip,          \* builder under single-step: statements executed
    bstate       \* builder under single-step: "building" / "crashed" / "off"

vars == <<netifs, pc, i, pid, if_index, sock, rcvq, links, nslinks, heap, reqs,
          registered, sent, recvd, lookups, err, calls, nenv,
          req, cursor, job, ip, bstate>>

procVars == <<netifs, pc, i, pid, if_index, sock, rcvq, links, nslinks, reqs,
              registered, sent, recvd, lookups, err, calls, nenv>>

buildVars == <<req, cursor, job, ip, bstate>>

----------------------------------------------------------------------------
(* Bounds of the model *)

\* add_netif calls per run
MaxReg == 2
\* do_netif and setup_loopback calls per run
MaxCalls == 2
\* events outside the normal course per run: an interface removed by another
\* process, a reply of another kind than the acknowledgement
MaxEnv == 1
\* length of the interface name that no longer fits the message buffer
LongLen == 9180
\* length of the interface name whose attribute length no longer fits 16 bits
HugeLen == 65531

----------------------------------------------------------------------------
(* Wire constants *)

NLMSG_ALIGNTO == 4
RTA_ALIGNTO == 4
NLMSG_HDRLEN == 16
SIZEOF_IFINFOMSG == 16
SIZEOF_NLMSG == 36
SIZEOF_RTATTR == 4
RTA_LEN_MOD == 65536

RTM_NEWLINK == 16
NLMSG_ERROR == 2
NLMSG_DONE == 3
AF_UNSPEC == 0
IFF_UP == 1
LOOPBACK_INDEX == 1

IFLA_IFNAME == 3
IFLA_LINK == 5
IFLA_LINKINFO == 18
IFLA_NET_NS_PID == 19
IFLA_INFO_KIND == 1
IFLA_INFO_DATA == 2
VETH_INFO_PEER == 1

NLMSG_GOOD_SIZE == SIZEOF_NLMSG * 256

Max(a, b) == IF a >= b THEN a ELSE b

Align4(n) == ((n + 3) \div 4) * 4

NLMSG_ALIGN(len) == ((len + NLMSG_ALIGNTO - 1) \div NLMSG_ALIGNTO) * NLMSG_ALIGNTO

NLMSG_LENGTH(len) == len + NLMSG_HDRLEN

RTA_ALIGN(len) == ((len + RTA_ALIGNTO - 1) \div RTA_ALIGNTO) * RTA_ALIGNTO

RTA_LENGTH(len) == RTA_ALIGN(SIZEOF_RTATTR) + len

----------------------------------------------------------------------------
(* Bytes *)

LE16(v) == <<v % 256, (v \div 256) % 256>>

LE32(v) == <<v % 256, (v \div 256) % 256, (v \div 65536) % 256, (v \div 16777216) % 256>>

\* a C string as memcpy sees it with strlen(s) + 1: the bytes and the NUL
CStr(s) == Append(s, 0)

\* the 32-bit word whose four bytes are all g
Word(g) == g * 16843009

RECURSIVE Decimal(_)
\* "%d" of a non-negative int, as ASCII bytes
Decimal(n) == IF n < 10 THEN <<48 + n>> ELSE Append(Decimal(n \div 10), 48 + (n % 10))

\* asprintf(&name, "pflask-%d", pid)
TransientName(p) == <<112, 102, 108, 97, 115, 107, 45>> \o Decimal(p)

----------------------------------------------------------------------------
(* struct nlmsg in a malloc(NLMSG_GOOD_SIZE) buffer *)

NoMem == [o \in {} |-> 0]

\* malloc(NLMSG_GOOD_SIZE): nothing is initialised, every byte reads g
malloc(g) ==
    [nlmsg_len |-> Word(g), nlmsg_type |-> Word(g) % 65536, nlmsg_flags |-> {},
     nlmsg_seq |-> Word(g), ifi_family |-> g, ifi_index |-> Word(g),
     ifi_flags |-> Word(g), ifi_change |-> Word(g), mem |-> NoMem, fill |-> g,
     hw |-> 0]

\* the byte at offset o of the buffer
Peek(m, o) == IF o \in DOMAIN m.mem THEN m.mem[o] ELSE m.fill

\* the buffer after writing bytes at offset off; hw is one past the highest
\* offset ever written
Poke(m, off, bytes) ==
    [m EXCEPT
        !.mem = [o \in (DOMAIN m.mem) \cup (off .. (off + Len(bytes) - 1)) |->
                    IF o >= off /\ o < off + Len(bytes) THEN bytes[o - off + 1]
                    ELSE m.mem[o]],
        !.hw = Max(@, off + Len(bytes))]

\* NLMSG_TAIL(nmsg) as an offset from the start of the buffer
NLMSG_TAIL(nlmsg) == NLMSG_ALIGN(nlmsg.nlmsg_len)

\* rtattr->rta_len / rta_type of the attribute at offset off
RtaLen(m, off) == Peek(m, off) + 256 * Peek(m, off + 1)

RtaType(m, off) == Peek(m, off + 2) + 256 * Peek(m, off + 3)

\* RTA_DATA .. RTA_DATA + RTA_PAYLOAD of the attribute at offset off
RtaPayload(m, off) ==
    [k \in 1 .. Max(RtaLen(m, off) - RTA_LENGTH(0), 0) |-> Peek(m, off + RTA_LENGTH(0) + k - 1)]

\* the same without RTA_ALIGN in the new total length
rtattr_append_Unpadded(nlmsg, attr, d, len) ==
    LET rtalen == RTA_LENGTH(len)
        rtattr == NLMSG_TAIL(nlmsg)
        written == Poke(nlmsg, rtattr,
                        LE16(rtalen % RTA_LEN_MOD) \o LE16(attr) \o SubSeq(d, 1, len))
    IN  [written EXCEPT !.nlmsg_len = NLMSG_ALIGN(nlmsg.nlmsg_len) + rtalen]

rtattr_append(nlmsg, attr, d, len) ==
    LET rtalen == RTA_LENGTH(len)
        rtattr == NLMSG_TAIL(nlmsg)
        written == Poke(nlmsg, rtattr,
                        LE16(rtalen % RTA_LEN_MOD) \o LE16(attr) \o SubSeq(d, 1, len))
    IN  [written EXCEPT
            !.nlmsg_len = NLMSG_ALIGN(nlmsg.nlmsg_len) + RTA_ALIGN(rtalen)]

rtattr_start_nested(nlmsg, attr) ==
    [rtattr |-> NLMSG_TAIL(nlmsg), nlmsg |-> rtattr_append(nlmsg, attr, <<>>, 0)]

\* the same with the payload length in place of the whole span
rtattr_end_nested_Payload(nlmsg, rtattr) ==
    Poke(nlmsg, rtattr, LE16((NLMSG_TAIL(nlmsg) - rtattr - SIZEOF_RTATTR) % RTA_LEN_MOD))

rtattr_end_nested(nlmsg, rtattr) ==
    Poke(nlmsg, rtattr, LE16((NLMSG_TAIL(nlmsg) - rtattr) % RTA_LEN_MOD))

----------------------------------------------------------------------------
(* The request builders: header assignments, then the attribute statements *)

Slots == {"nested", "nested_info", "nested_data", "nested_peer"}

NullCursor == [s \in Slots |-> -1]

StAppend(attr, d) == [op |-> "append", attr |-> attr, d |-> d, slot |-> "", n |-> Len(d)]

StStart(attr, slot) == [op |-> "start", attr |-> attr, d |-> <<>>, slot |-> slot, n |-> 0]

StEnd(slot) == [op |-> "end", attr |-> 0, d |-> <<>>, slot |-> slot, n |-> 0]

StGrow(n) == [op |-> "grow", attr |-> 0, d |-> <<>>, slot |-> "", n |-> n]

\* one statement of a builder, on the buffer and the builder's rtattr locals
Exec(b, st) ==
    CASE st.op = "append" ->
            [b EXCEPT !.nlmsg = rtattr_append(@, st.attr, st.d, st.n)]
      [] st.op = "start" ->
            LET r == rtattr_start_nested(b.nlmsg, st.attr)
            IN  [nlmsg |-> r.nlmsg, cur |-> [b.cur EXCEPT ![st.slot] = r.rtattr]]
      [] st.op = "end" ->
            [b EXCEPT !.nlmsg = rtattr_end_nested(@, b.cur[st.slot])]
      [] OTHER ->
            [b EXCEPT !.nlmsg.nlmsg_len = @ + st.n]

RECURSIVE RunFrom(_, _, _)
RunFrom(b, p, k) == IF k > Len(p) THEN b ELSE RunFrom(Exec(b, p[k]), p, k + 1)

\* the buffer a builder hands to nl_send
Built(hdr, p) == RunFrom([nlmsg |-> hdr, cur |-> NullCursor], p, 1).nlmsg

\* the same without the assignment to ifi_change
if_up_hdr_NoChange(g, idx) ==
    [malloc(g) EXCEPT
        !.nlmsg_seq = 1, !.nlmsg_type = RTM_NEWLINK,
        !.nlmsg_len = NLMSG_LENGTH(SIZEOF_IFINFOMSG),
        !.nlmsg_flags = {"NLM_F_REQUEST", "NLM_F_ACK"},
        !.ifi_family = AF_UNSPEC, !.ifi_index = idx,
        !.ifi_flags = IFF_UP]

if_up_hdr(g, idx) ==
    [malloc(g) EXCEPT
        !.nlmsg_seq = 1, !.nlmsg_type = RTM_NEWLINK,
        !.nlmsg_len = NLMSG_LENGTH(SIZEOF_IFINFOMSG),
        !.nlmsg_flags = {"NLM_F_REQUEST", "NLM_F_ACK"},
        !.ifi_family = AF_UNSPEC, !.ifi_index = idx,
        !.ifi_flags = IFF_UP, !.ifi_change = IFF_UP]

if_up_prog == <<>>

move_and_rename_if_hdr(g, idx) ==
    [malloc(g) EXCEPT
        !.nlmsg_seq = 1, !.nlmsg_type = RTM_NEWLINK,
        !.nlmsg_len = NLMSG_LENGTH(SIZEOF_IFINFOMSG),
        !.nlmsg_flags = {"NLM_F_REQUEST", "NLM_F_ACK"},
        !.ifi_family = AF_UNSPEC, !.ifi_index = idx]

move_and_rename_if_prog(p, new_name) ==
    << StAppend(IFLA_NET_NS_PID, LE32(p)),
       StAppend(IFLA_IFNAME, CStr(new_name)) >>

create_macvlan_hdr(g) ==
    [malloc(g) EXCEPT
        !.nlmsg_seq = 1, !.nlmsg_type = RTM_NEWLINK,
        !.nlmsg_len = NLMSG_LENGTH(SIZEOF_IFINFOMSG),
        !.nlmsg_flags = {"NLM_F_REQUEST", "NLM_F_CREATE", "NLM_F_EXCL", "NLM_F_ACK"},
        !.ifi_family = AF_UNSPEC]

create_veth_pair_hdr(g) ==
    [malloc(g) EXCEPT
        !.nlmsg_seq = 1, !.nlmsg_type = RTM_NEWLINK,
        !.nlmsg_len = NLMSG_LENGTH(SIZEOF_IFINFOMSG),
        !.nlmsg_flags = {"NLM_F_REQUEST", "NLM_F_CREATE", "NLM_F_EXCL", "NLM_F_ACK"},
        !.ifi_family = AF_UNSPEC]

\* "macvlan" and "veth"
KindMacvlan == <<109, 97, 99, 118, 108, 97, 110>>

KindVeth == <<118, 101, 116, 104>>

create_macvlan_prog(master, name) ==
    << StStart(IFLA_LINKINFO, "nested"),
       StAppend(IFLA_INFO_KIND, CStr(KindMacvlan)),
       StEnd("nested"),
       StAppend(IFLA_LINK, LE32(master)),
       StAppend(IFLA_IFNAME, CStr(name)) >>

\* the same with info-data closed before the peer inside it
create_veth_pair_prog_Crossed(name_out, name_in) ==
    << StStart(IFLA_LINKINFO, "nested_info"),
       StAppend(IFLA_INFO_KIND, CStr(KindVeth)),
       StStart(IFLA_INFO_DATA, "nested_data"),
       StStart(VETH_INFO_PEER, "nested_peer"),
       StGrow(SIZEOF_IFINFOMSG),
       StAppend(IFLA_IFNAME, CStr(name_in)),
       StEnd("nested_data"),
       StEnd("nested_peer"),
       StEnd("nested_info"),
       StAppend(IFLA_IFNAME, CStr(name_out)) >>

create_veth_pair_prog(name_out, name_in) ==
    << StStart(IFLA_LINKINFO, "nested_info"),
       StAppend(IFLA_INFO_KIND, CStr(KindVeth)),
       StStart(IFLA_INFO_DATA, "nested_data"),
       StStart(VETH_INFO_PEER, "nested_peer"),
       StGrow(SIZEOF_IFINFOMSG),
       StAppend(IFLA_IFNAME, CStr(name_in)),
       StEnd("nested_peer"),
       StEnd("nested_data"),
       StEnd("nested_info"),
       StAppend(IFLA_IFNAME, CStr(name_out)) >>

----------------------------------------------------------------------------
(* Inputs *)

\* "eth0": an interface of the caller's namespace
Eth0 == <<101, 116, 104, 48>>

\* "v0": a name no interface has at the start
V0 == <<118, 48>>

\* "wan" and "c0": names wanted inside the target namespace
Wan == <<119, 97, 110>>

C0 == <<99, 48>>

\* a name of LongLen characters, and one of HugeLen characters
LongName == [k \in 1 .. LongLen |-> 120]

HugeName == [k \in 1 .. HugeLen |-> 120]

\* the pids the builders are handed, of one digit and of several
Pids == {7, 4242}

\* the pid do_netif is called with: the first process of the new namespace
TargetPids == {4242}

\* what malloc() may leave in a fresh buffer
Garbage == {0, 5}

\* the actions a run registers, one of each kind: eth0 is there until it is
\* moved away, v0 only once a veth pair has been made with it as outward end
Actions ==
    {[type |-> "MOVE", dev |-> Eth0, name |-> Wan],
     [type |-> "MACVLAN", dev |-> Eth0, name |-> C0],
     [type |-> "VETH", dev |-> V0, name |-> Wan]}

----------------------------------------------------------------------------
(* The builders, one statement at a time *)

\* the names a builder may be handed, by key
NameKeys == {"eth0", "v0", "wan", "c0", "long", "huge"}

NameOf(key) ==
    CASE key = "eth0" -> Eth0
      [] key = "v0" -> V0
      [] key = "wan" -> Wan
      [] key = "c0" -> C0
      [] key = "long" -> LongName
      [] OTHER -> HugeName

NoJob == [fn |-> "none", pid |-> 0, idx |-> 0, name |-> "eth0"]

\* the calls of the builders that are stepped through
BuildCases ==
    {[fn |-> "if_up", pid |-> 0, idx |-> LOOPBACK_INDEX, name |-> "eth0"]}
    \cup {[fn |-> "move_and_rename_if", pid |-> p, idx |-> x, name |-> n] :
            x \in {0, 2}, p \in Pids, n \in {"wan", "c0", "long", "huge"}}
    \cup {[fn |-> "create_macvlan", pid |-> p, idx |-> 2, name |-> "eth0"] : p \in Pids}
    \cup {[fn |-> "create_veth_pair", pid |-> p, idx |-> 0, name |-> n] :
            p \in Pids, n \in {"eth0", "v0", "long", "huge"}}

\* the buffer of call c after the header assignments
HdrOf(c, g) ==
    CASE c.fn = "if_up" -> if_up_hdr(g, c.idx)
      [] c.fn = "move_and_rename_if" -> move_and_rename_if_hdr(g, c.idx)
      [] c.fn = "create_macvlan" -> create_macvlan_hdr(g)
      [] OTHER -> create_veth_pair_hdr(g)

\* the attribute statements of call c
ProgOf(c) ==
    CASE c.fn = "move_and_rename_if" -> move_and_rename_if_prog(c.pid, NameOf(c.name))
      [] c.fn = "create_macvlan" -> create_macvlan_prog(c.idx, TransientName(c.pid))
      [] c.fn = "create_veth_pair" -> create_veth_pair_prog(NameOf(c.name), TransientName(c.pid))
      [] OTHER -> if_up_prog

prog == ProgOf(job)

\* the statement at ip is executed, if it is a statement of kind op
BuildStep(op) ==
    /\ prog[ip + 1].op = op
    /\ LET b == Exec([nlmsg |-> req, cur |-> cursor], prog[ip + 1])
       IN  /\ req' = b.nlmsg
           /\ cursor' = b.cur
           /\ ip' = ip + 1
           \* a write past the end of the malloc'd block is undefined: the
           \* process may go on with a corrupted heap or die on the spot
           /\ IF b.nlmsg.hw > NLMSG_GOOD_SIZE
                 THEN bstate' \in {"building", "crashed"}
                 ELSE bstate' = "building"
    /\ UNCHANGED <<job, procVars, heap>>

BuildAppend ==
    /\ bstate = "building"
    /\ ip < Len(prog)
    /\ BuildStep("append")

BuildStartNested ==
    /\ bstate = "building"
    /\ ip < Len(prog)
    /\ BuildStep("start")

BuildEndNested ==
    /\ bstate = "building"
    /\ ip < Len(prog)
    /\ BuildStep("end")

BuildGrow ==
    /\ bstate = "building"
    /\ ip < Len(prog)
    /\ BuildStep("grow")

----------------------------------------------------------------------------
(* The kernel's side of the socket: it decodes the datagram it is handed *)

RECURSIVE Attrs(_, _, _)
\* the attributes found from offset off up to end, as RTA_OK / RTA_NEXT walk them
Attrs(m, off, end) ==
    IF end - off >= SIZEOF_RTATTR /\ RtaLen(m, off) >= SIZEOF_RTATTR /\ RtaLen(m, off) <= end - off
    THEN <<[type |-> RtaType(m, off), off |-> off, len |-> RtaLen(m, off)]>>
         \o Attrs(m, off + RTA_ALIGN(RtaLen(m, off)), end)
    ELSE <<>>

TopAttrs(m) == Attrs(m, NLMSG_LENGTH(SIZEOF_IFINFOMSG), m.nlmsg_len)

Inside(m, a, skip) == Attrs(m, a.off + SIZEOF_RTATTR + skip, a.off + a.len)

Has(as, t) == \E k \in 1 .. Len(as) : as[k].type = t

Get(as, t) == as[CHOOSE k \in 1 .. Len(as) : as[k].type = t /\ \A j \in 1 .. k - 1 : as[j].type # t]

\* a NUL-terminated string read out of a payload
StrOf(bytes) ==
    LET n == CHOOSE k \in 0 .. Len(bytes) :
                /\ \A j \in 1 .. k : bytes[j] # 0
                /\ k = Len(bytes) \/ bytes[k + 1] = 0
    IN  SubSeq(bytes, 1, n)

U32Of(bytes) == bytes[1] + 256 * bytes[2] + 65536 * bytes[3] + 16777216 * bytes[4]

U32At(m, off) == U32Of([k \in 1 .. 4 |-> Peek(m, off + k - 1)])

\* if_nametoindex(): 0 when no interface of the caller's namespace has the name
if_nametoindex(name) ==
    IF \E l \in links : l.name = name
    THEN (CHOOSE l \in links : l.name = name).index
    ELSE 0

IndexInUse(L, x) == x = LOOPBACK_INDEX \/ \E l \in L : l.index = x

\* the index a new interface gets: the one asked for, else the next free one
NewIndex(L, asked) ==
    IF asked # 0 THEN asked
    ELSE CHOOSE x \in 2 .. (Cardinality(L) + 2) :
            /\ ~IndexInUse(L, x)
            /\ \A y \in 2 .. x - 1 : IndexInUse(L, y)

EPERM == 1
ENODEV == 19
EEXIST == 17
EINVAL == 22

Verdict(ok, L, N, made, e) ==
    [ok |-> ok, links |-> L, nslinks |-> N, made |-> made, error |-> e]

\* RTM_NEWLINK with NLM_F_CREATE | NLM_F_EXCL: a macvlan on a master, or a veth pair
KernelCreate(m, L, N) ==
    LET top == TopAttrs(m)
        name == StrOf(RtaPayload(m, Get(top, IFLA_IFNAME).off))
        info == Inside(m, Get(top, IFLA_LINKINFO), 0)
        kind == StrOf(RtaPayload(m, Get(info, IFLA_INFO_KIND).off))
        idx == NewIndex(L, m.ifi_index)
        dev == [name |-> name, index |-> idx]
    IN  IF ~(Has(top, IFLA_IFNAME) /\ Has(top, IFLA_LINKINFO) /\ Has(info, IFLA_INFO_KIND))
        THEN Verdict(FALSE, L, N, {}, EINVAL)
        ELSE IF (\E l \in L : l.name = name) \/ IndexInUse(L, idx)
        THEN Verdict(FALSE, L, N, {}, EEXIST)
        ELSE IF kind = KindMacvlan
        THEN IF Has(top, IFLA_LINK)
                /\ \E l \in L : l.index = U32Of(RtaPayload(m, Get(top, IFLA_LINK).off))
             THEN Verdict(TRUE, L \cup {dev}, N, {dev}, 0)
             ELSE Verdict(FALSE, L, N, {}, ENODEV)
        ELSE IF kind = KindVeth
        THEN LET data == IF Has(info, IFLA_INFO_DATA)
                         THEN Inside(m, Get(info, IFLA_INFO_DATA), 0) ELSE <<>>
                 peer == Get(data, VETH_INFO_PEER)
                 pattrs == Inside(m, peer, SIZEOF_IFINFOMSG)
                 pname == StrOf(RtaPayload(m, Get(pattrs, IFLA_IFNAME).off))
                 pidx == NewIndex(L \cup {dev}, U32At(m, peer.off + SIZEOF_RTATTR + 4))
                 pdev == [name |-> pname, index |-> pidx]
             IN  IF ~(Has(data, VETH_INFO_PEER) /\ Has(pattrs, IFLA_IFNAME))
                 THEN Verdict(FALSE, L, N, {}, EINVAL)
                 ELSE IF (\E l \in L \cup {dev} : l.name = pname)
                         \/ IndexInUse(L \cup {dev}, pidx)
                 THEN Verdict(FALSE, L, N, {}, EEXIST)
                 ELSE Verdict(TRUE, L \cup {dev, pdev}, N, {dev, pdev}, 0)
        ELSE Verdict(FALSE, L, N, {}, EINVAL)

\* RTM_NEWLINK without NLM_F_CREATE: change an existing interface, found by
\* index, or by name when the index is 0
KernelSet(m, L, N) ==
    LET top == TopAttrs(m)
        name == IF Has(top, IFLA_IFNAME)
                THEN StrOf(RtaPayload(m, Get(top, IFLA_IFNAME).off)) ELSE <<>>
        found == IF m.ifi_index > 0 THEN {l \in L : l.index = m.ifi_index}
                 ELSE {l \in L : l.name = name}
        dev == CHOOSE l \in found : TRUE
    IN  IF m.ifi_index = LOOPBACK_INDEX
        THEN IF Has(top, IFLA_NET_NS_PID)
             THEN Verdict(FALSE, L, N, {}, EINVAL)
             ELSE Verdict(TRUE, L, N, {}, 0)
        ELSE IF found = {}
        THEN Verdict(FALSE, L, N, {}, ENODEV)
        ELSE IF Has(top, IFLA_NET_NS_PID)
        THEN LET p == U32Of(RtaPayload(m, Get(top, IFLA_NET_NS_PID).off))
                 moved == [pid |-> p, name |-> IF name = <<>> THEN dev.name ELSE name,
                           was |-> dev.index]
             IN  IF \E x \in N : x.pid = p /\ x.name = moved.name
                 THEN Verdict(FALSE, L, N, {}, EEXIST)
                 ELSE Verdict(TRUE, L \ {dev}, N \cup {moved}, {}, 0)
        ELSE Verdict(TRUE, L, N, {}, 0)

KernelVerdict(m, L, N) ==
    IF "NLM_F_CREATE" \in m.nlmsg_flags THEN KernelCreate(m, L, N) ELSE KernelSet(m, L, N)

\* the acknowledgement
AckReply == [type |-> NLMSG_ERROR, error |-> 0]

\* a message of another kind whose bytes at the place of the error code
\* happen to read negative
OddReply == [type |-> NLMSG_DONE, error |-> -1]

\* what the kernel may do with a request: refuse it outright (the caller
\* lacks the privilege), or carry it out as far as its tables allow
KernelOutcomes(m, L, N, odd) ==
    LET v == KernelVerdict(m, L, N)
    IN  {[links |-> L, nslinks |-> N, made |-> {},
          reply |-> [type |-> NLMSG_ERROR, error |-> -EPERM]]}
        \cup (IF v.ok
              THEN {[links |-> v.links, nslinks |-> v.nslinks, made |-> v.made, reply |-> r] :
                        r \in {AckReply} \cup (IF odd THEN {OddReply} ELSE {})}
              ELSE {[links |-> L, nslinks |-> N, made |-> {},
                     reply |-> [type |-> NLMSG_ERROR, error |-> -v.error]]})

----------------------------------------------------------------------------
(* The process *)

NoErr == [kind |-> "", code |-> 0]

\* fail_printf / sysf_printf: report and terminate the process
Fail(kind, code) ==
    /\ pc' = "exited"
    /\ err' = [kind |-> kind, code |-> code]

\* the same without nif->next = netifs: the nodes linked before are lost
Linked_Alone(nif, list) == <<nif>>

\* add_netif: the new node becomes the head of the list
Linked(nif, list) == <<nif>> \o list

\* the loop without the reversal: the list is handed on as it is
ReverseLoop_InPlace(list, acc) == [netifs |-> <<>>, i |-> list]

\* the loop walking the list with a cursor: netifs keeps its nodes
ReverseLoop_Cursor(list, acc) ==
    [netifs |-> list, i |-> [k \in 1 .. Len(list) |-> list[Len(list) + 1 - k]]]

RECURSIVE ReverseLoop(_, _)
\* do_netif's first loop, while (netifs): the head node of netifs is unlinked
\* and pushed onto i; the result is both lists when the loop ends
ReverseLoop(list, acc) ==
    IF list = <<>> THEN [netifs |-> list, i |-> acc]
    ELSE ReverseLoop(Tail(list), <<Head(list)>> \o acc)

\* the check with the comparison turned
NotFound_Negative(x) == x < 0

\* if (if_index == 0) after the lookup of i->dev
NotFound(x) == x = 0

\* the check without the test of nlmsg_type
if_up_rejected_AnyKind(reply) == reply.error < 0

if_up_rejected(reply) == reply.type = NLMSG_ERROR /\ reply.error < 0

\* the reply to the move-and-rename request is not looked at
move_and_rename_if_rejected_Never(reply) == FALSE

\* the check with the sign of the code turned
move_and_rename_if_rejected_Positive(reply) == reply.type = NLMSG_ERROR /\ reply.error > 0

move_and_rename_if_rejected(reply) == reply.type = NLMSG_ERROR /\ reply.error < 0

\* the reply to the create request is not looked at
create_macvlan_rejected_Never(reply) == FALSE

create_macvlan_rejected(reply) == reply.type = NLMSG_ERROR /\ reply.error < 0

create_veth_pair_rejected(reply) == reply.type = NLMSG_ERROR /\ reply.error < 0

\* _free_ on req: the buffer is freed when its builder returns
free(n) == n - 1

\* nl_open: socket() fails; bind() fails, with the socket just made still
\* open; or the bound socket is returned
nl_open ==
    {[ok |-> FALSE, sock |-> "closed"],
     [ok |-> FALSE, sock |-> "open"],
     [ok |-> TRUE, sock |-> "open"]}

\* nl_send: sendmsg() fails, or the kernel takes the datagram, acts on it
\* and queues its reply on the socket
nl_send(op, m, next) ==
    \/ /\ Fail("SendError", 0)
       /\ UNCHANGED <<links, nslinks, rcvq, sent, nenv>>
    \/ /\ \E o \in KernelOutcomes(m, links, nslinks, nenv < MaxEnv) :
            /\ links' = o.links
            /\ nenv' = (IF o.reply = OddReply THEN nenv + 1 ELSE nenv)
            /\ nslinks' = o.nslinks
            /\ rcvq' = Append(rcvq, o.reply)
            /\ sent' = Append(sent, [op |-> op, msg |-> m, made |-> o.made,
                                     at |-> Len(lookups), call |-> Len(calls)])
       /\ pc' = next
       /\ err' = err

\* recvmsg() that leaves the datagram it returns on the socket's queue
nl_recv_Peek(reply) ==
    /\ rcvq # <<>>
    /\ reply = Head(rcvq)
    /\ rcvq' = rcvq
    /\ recvd' = Append(recvd, reply)

\* nl_recv: recvmsg() fails, or hands over the next queued reply
nl_recv(reply) ==
    /\ rcvq # <<>>
    /\ reply = Head(rcvq)
    /\ rcvq' = Tail(rcvq)
    /\ recvd' = Append(recvd, reply)

nl_recv_fails ==
    /\ Fail("ReceiveError", 0)
    /\ UNCHANGED <<rcvq, recvd, reqs>>

add_netif(type, dev, name) ==
    /\ pc = "idle"
    /\ Len(registered) < MaxReg
    /\ LET nif == [type |-> type, dev |-> dev, name |-> name]
       IN  /\ netifs' = Linked(nif, netifs)
           /\ registered' = Append(registered, [type |-> type, dev |-> dev, name |-> name,
                                                  at |-> Len(calls)])
    /\ UNCHANGED <<pc, i, pid, if_index, sock, rcvq, links, nslinks, heap, reqs,
                   sent, recvd, lookups, err, calls, nenv, buildVars>>

\* do_netif up to its second loop: nl_open, then the list is reversed
do_netif(p) ==
    /\ pc = "idle"
    /\ Len(calls) < MaxCalls
    /\ calls' = Append(calls, [fn |-> "do_netif", pid |-> p, q |-> netifs,
                                at |-> Len(lookups)])
    /\ \/ /\ Fail("SessionOpenError", 0)
          /\ \E o \in nl_open : ~o.ok /\ sock' = o.sock
          /\ UNCHANGED <<netifs, i, pid, if_index>>
       \/ /\ \E o \in nl_open : o.ok /\ sock' = o.sock
          /\ i' = ReverseLoop(netifs, <<>>).i
          /\ netifs' = ReverseLoop(netifs, <<>>).netifs
          /\ pid' = p
          /\ if_index' = 0
          /\ pc' = "loop"
          /\ err' = err
    /\ UNCHANGED <<rcvq, links, nslinks, heap, reqs, registered, sent, recvd, lookups, nenv, buildVars>>

\* i == NULL: the function returns and _close_ closes the socket
do_netif_return ==
    /\ pc = "loop"
    /\ i = <<>>
    /\ pc' = "idle"
    /\ sock' = "closed"
    /\ UNCHANGED <<netifs, i, pid, if_index, rcvq, links, nslinks, heap, reqs,
                   registered, sent, recvd, lookups, err, calls, nenv, buildVars>>

\* case MOVE / case MACVLAN: if_nametoindex(i->dev), and the check of it
do_netif_lookup ==
    /\ pc = "loop"
    /\ i # <<>>
    /\ Head(i).type \in {"MOVE", "MACVLAN"}
    /\ LET x == if_nametoindex(Head(i).dev)
       IN  /\ if_index' = x
           /\ lookups' = Append(lookups, [name |-> Head(i).dev, index |-> x, why |-> "source",
                                            present |-> \E l \in links : l.name = Head(i).dev])
           /\ IF NotFound(x)
                 THEN Fail("InterfaceNotFound", 0)
                 ELSE /\ pc' = (IF Head(i).type = "MOVE" THEN "move" ELSE "macvlan")
                      /\ err' = err
    /\ UNCHANGED <<netifs, i, pid, sock, rcvq, links, nslinks, heap, reqs,
                   registered, sent, recvd, calls, nenv, buildVars>>

create_macvlan_send ==
    /\ pc = "macvlan"
    /\ nl_send("create_macvlan",
               Built(create_macvlan_hdr(heap), create_macvlan_prog(if_index, TransientName(pid))),
               "macvlan_recv")
    /\ reqs' = reqs + 1
    /\ UNCHANGED <<netifs, i, pid, if_index, sock, heap, registered, recvd, lookups,
                   calls, buildVars>>

create_macvlan_recv ==
    /\ pc = "macvlan_recv"
    /\ \/ nl_recv_fails
       \/ \E reply \in {Head(rcvq)} :
            /\ nl_recv(reply)
            /\ IF create_macvlan_rejected(reply)
                  THEN Fail("NetlinkRejected", -reply.error) /\ reqs' = reqs
                  ELSE pc' = "relookup" /\ err' = err /\ reqs' = free(reqs)
    /\ UNCHANGED <<netifs, i, pid, if_index, sock, links, nslinks, heap, registered,
                   sent, lookups, calls, nenv, buildVars>>

create_veth_pair_send ==
    /\ pc = "loop"
    /\ i # <<>>
    /\ Head(i).type = "VETH"
    /\ nl_send("create_veth_pair",
               Built(create_veth_pair_hdr(heap), create_veth_pair_prog(Head(i).dev, TransientName(pid))),
               "veth_recv")
    /\ reqs' = reqs + 1
    /\ UNCHANGED <<netifs, i, pid, if_index, sock, heap, registered, recvd, lookups,
                   calls, buildVars>>

create_veth_pair_recv ==
    /\ pc = "veth_recv"
    /\ \/ nl_recv_fails
       \/ \E reply \in {Head(rcvq)} :
            /\ nl_recv(reply)
            /\ IF create_veth_pair_rejected(reply)
                  THEN Fail("NetlinkRejected", -reply.error) /\ reqs' = reqs
                  ELSE pc' = "relookup" /\ err' = err /\ reqs' = free(reqs)
    /\ UNCHANGED <<netifs, i, pid, if_index, sock, links, nslinks, heap, registered,
                   sent, lookups, calls, nenv, buildVars>>

\* if_index = if_nametoindex(name) after a create: the result is not checked
do_netif_relookup ==
    /\ pc = "relookup"
    /\ LET x == if_nametoindex(TransientName(pid))
       IN  /\ if_index' = x
           /\ lookups' = Append(lookups, [name |-> TransientName(pid), index |-> x,
                                            why |-> "transient",
                                            present |-> \E l \in links : l.name = TransientName(pid)])
    /\ pc' = "move"
    /\ UNCHANGED <<netifs, i, pid, sock, rcvq, links, nslinks, heap, reqs,
                   registered, sent, recvd, err, calls, nenv, buildVars>>

move_and_rename_if_send ==
    /\ pc = "move"
    /\ nl_send("move_and_rename_if",
               Built(move_and_rename_if_hdr(heap, if_index),
                     move_and_rename_if_prog(pid, Head(i).name)),
               "move_recv")
    /\ reqs' = reqs + 1
    /\ UNCHANGED <<netifs, i, pid, if_index, sock, heap, registered, recvd, lookups,
                   calls, buildVars>>

\* the reply to move-and-rename, then i = i->next
move_and_rename_if_recv ==
    /\ pc = "move_recv"
    /\ \/ /\ nl_recv_fails
          /\ UNCHANGED <<i, if_index>>
       \/ \E reply \in {Head(rcvq)} :
            /\ nl_recv(reply)
            /\ IF move_and_rename_if_rejected(reply)
                  THEN /\ Fail("NetlinkRejected", -reply.error)
                       /\ UNCHANGED <<i, if_index, reqs>>
                  ELSE /\ pc' = "loop"
                       /\ err' = err
                       /\ reqs' = free(reqs)
                       /\ i' = Tail(i)
                       /\ if_index' = 0
    /\ UNCHANGED <<netifs, pid, sock, links, nslinks, heap, registered,
                   sent, lookups, calls, nenv, buildVars>>

\* setup_loopback: nl_open
setup_loopback ==
    /\ pc = "idle"
    /\ Len(calls) < MaxCalls
    /\ calls' = Append(calls, [fn |-> "setup_loopback", pid |-> 0, q |-> netifs,
                                at |-> Len(lookups)])
    /\ \/ /\ Fail("SessionOpenError", 0)
          /\ \E o \in nl_open : ~o.ok /\ sock' = o.sock
       \/ /\ \E o \in nl_open : o.ok /\ sock' = o.sock
          /\ pc' = "up"
          /\ err' = err
    /\ UNCHANGED <<netifs, i, pid, if_index, rcvq, links, nslinks, heap, reqs,
                   registered, sent, recvd, lookups, nenv, buildVars>>

if_up_send ==
    /\ pc = "up"
    /\ nl_send("if_up", Built(if_up_hdr(heap, LOOPBACK_INDEX), if_up_prog), "up_recv")
    /\ reqs' = reqs + 1
    /\ UNCHANGED <<netifs, i, pid, if_index, sock, heap, registered, recvd, lookups,
                   calls, buildVars>>

\* the reply to bring-up; setup_loopback returns and _close_ closes the socket
if_up_recv ==
    /\ pc = "up_recv"
    /\ \/ /\ nl_recv_fails
          /\ sock' = sock
       \/ \E reply \in {Head(rcvq)} :
            /\ nl_recv(reply)
            /\ IF if_up_rejected(reply)
                  THEN Fail("NetlinkRejected", -reply.error) /\ sock' = sock /\ reqs' = reqs
                  ELSE pc' = "idle" /\ err' = err /\ sock' = "closed" /\ reqs' = free(reqs)
    /\ UNCHANGED <<netifs, i, pid, if_index, links, nslinks, heap, registered,
                   sent, lookups, calls, nenv, buildVars>>

\* another process removes (or renames away) an interface of the caller's
\* namespace while a call is running
EnvUnlink ==
    /\ pc \notin {"idle", "exited"}
    /\ nenv < MaxEnv
    /\ nenv' = nenv + 1
    /\ \E l \in links : links' = links \ {l}
    /\ UNCHANGED <<netifs, pc, i, pid, if_index, sock, rcvq, nslinks, heap, reqs,
                   registered, sent, recvd, lookups, err, calls, buildVars>>

ProcInit ==
    /\ netifs = <<>>
    /\ pc = "idle"
    /\ i = <<>>
    /\ pid = 0
    /\ if_index = 0
    /\ sock = "closed"
    /\ rcvq = <<>>
    /\ reqs = 0
    /\ links = {[name |-> Eth0, index |-> 2]}
    /\ nslinks = {}
    /\ registered = <<>>
    /\ sent = <<>>
    /\ recvd = <<>>
    /\ lookups = <<>>
    /\ err = NoErr
    /\ calls = <<>>
    /\ nenv = 0

Init ==
    /\ ProcInit
    /\ heap \in Garbage
    /\ req = malloc(0)
    /\ cursor = NullCursor
    /\ job = NoJob
    /\ ip = 0
    /\ bstate = "off"

Next ==
    \/ \E a \in Actions : add_netif(a.type, a.dev, a.name)
    \/ \E p \in TargetPids : do_netif(p)
    \/ do_netif_return
    \/ do_netif_lookup
    \/ create_macvlan_send
    \/ create_macvlan_recv
    \/ create_veth_pair_send
    \/ create_veth_pair_recv
    \/ do_netif_relookup
    \/ move_and_rename_if_send
    \/ move_and_rename_if_recv
    \/ setup_loopback
    \/ if_up_send
    \/ if_up_recv
    \/ EnvUnlink

Spec == Init /\ [][Next]_vars

BuildInit ==
    /\ ProcInit
    /\ heap \in Garbage
    /\ job \in BuildCases
    /\ req = HdrOf(job, heap)
    /\ cursor = NullCursor
    /\ ip = 0
    /\ bstate = "building"

BuildNext ==
    \/ BuildAppend
    \/ BuildStartNested
    \/ BuildEndNested
    \/ BuildGrow

SpecBuild == BuildInit /\ [][BuildNext]_vars

----------------------------------------------------------------------------
(* Reading the histories *)

IsMove(e) == e.op = "move_and_rename_if"

IsCreate(e) == e.op \in {"create_macvlan", "create_veth_pair"}

\* the move-and-rename requests issued so far, in order
Moves == SelectSeq(sent, IsMove)

\* the name and the pid a request carries as top-level attributes
SentName(m) == StrOf(RtaPayload(m, Get(TopAttrs(m), IFLA_IFNAME).off))

SentPid(m) == U32Of(RtaPayload(m, Get(TopAttrs(m), IFLA_NET_NS_PID).off))

\* the first do_netif call made after t calls, 0 if there is none yet
FirstDrainAfter(t) ==
    IF \E c \in (t + 1) .. Len(calls) : calls[c].fn = "do_netif"
    THEN CHOOSE c \in (t + 1) .. Len(calls) :
            /\ calls[c].fn = "do_netif"
            /\ \A b \in (t + 1) .. (c - 1) : calls[b].fn # "do_netif"
    ELSE 0

InDrain == pc \in {"loop", "macvlan", "macvlan_recv", "veth_recv", "relookup", "move", "move_recv"}

Returning == pc = "loop" /\ i = <<>>

Count(seq, Test(_)) == Len(SelectSeq(seq, Test))

----------------------------------------------------------------------------
(* C1: the move-and-rename requests are issued in registration order: the  *)
(* k-th one carries the target name of the k-th registered action, and a   *)
(* drain that reaches its end has issued one for every registered action,  *)
(* although add_netif prepends and do_netif reverses.                      *)
C1_FifoOrder ==
    LET mv == Moves
    IN  /\ Len(mv) <= Len(registered)
        /\ \A k \in 1 .. Len(mv) :
            LET as == TopAttrs(mv[k].msg)
            IN  /\ Has(as, IFLA_IFNAME)
                /\ StrOf(RtaPayload(mv[k].msg, Get(as, IFLA_IFNAME).off)) = registered[k].name
        /\ Returning => Len(mv) = Len(registered)

\* two actions of different kinds and names were drained to the end
C1_Witness ==
    /\ pc = "idle"
    /\ err = NoErr
    /\ Len(registered) = 2
    /\ registered[1].name # registered[2].name
    /\ registered[1].type # registered[2].type
    /\ registered[2].at = 0
    /\ Len(Moves) = 2

(* C2: while do_netif runs and when it returns the pending list is empty;  *)
(* every action is processed once, by the first do_netif call after its    *)
(* registration; a do_netif call with nothing registered since the one     *)
(* before sends no request at all.                                         *)
C2_DrainedOnce ==
    /\ InDrain => netifs = <<>>
    /\ Len(Moves) <= Len(registered)
    /\ \A k \in 1 .. Len(Moves) : Moves[k].call = FirstDrainAfter(registered[k].at)
    /\ Count(sent, IsCreate) <= Len(Moves) + 1
    /\ \A k \in 1 .. Len(sent) :
        sent[k].op # "if_up" =>
            /\ calls[sent[k].call].fn = "do_netif"
            /\ \E r \in 1 .. Len(registered) : FirstDrainAfter(registered[r].at) = sent[k].call
    /\ (pc = "idle" /\ err = NoErr) =>
            /\ Len(netifs) = Len(registered) - Len(Moves)
            /\ \A r \in 1 .. Len(registered) :
                    r > Len(Moves) <=> FirstDrainAfter(registered[r].at) = 0

\* a second do_netif, nothing registered in between, returned without a request
C2_Witness ==
    /\ pc = "idle"
    /\ err = NoErr
    /\ Len(calls) = 2
    /\ calls[1].fn = "do_netif"
    /\ calls[2].fn = "do_netif"
    /\ Len(registered) = 2
    /\ registered[2].at = 0
    /\ Len(Moves) = 2
    /\ \A k \in 1 .. Len(sent) : sent[k].call = 1

\* the request sent just before the k-th entry of sent
Before(k) == sent[k - 1]

\* the place in sent of the k-th move-and-rename request
MovePlace(k) ==
    CHOOSE n \in 1 .. Len(sent) :
        IsMove(sent[n]) /\ Count(SubSeq(sent, 1, n), IsMove) = k

(* C3: each drained action gets one move-and-rename request, which carries *)
(* the pid of its do_netif call, the action's target name, and as index:   *)
(* the index of the source for MOVE, the index of the interface the        *)
(* action's create request made under the transient name for MACVLAN and   *)
(* VETH; it is never the index of the veth's outward end.                  *)
C3_MoveRequest ==
    \A k \in 1 .. Len(Moves) :
        LET e == Moves[k]
            a == registered[k]
            n == MovePlace(k)
            tr == TransientName(calls[e.call].pid)
        IN  /\ SentPid(e.msg) = calls[e.call].pid
            /\ SentName(e.msg) = a.name
            /\ e.msg.ifi_index # 0
            /\ a.type = "MOVE" =>
                    /\ lookups[e.at].name = a.dev
                    /\ lookups[e.at].index = e.msg.ifi_index
            /\ a.type \in {"MACVLAN", "VETH"} =>
                    /\ n > 1
                    /\ IsCreate(Before(n))
                    /\ \E d \in Before(n).made : d.name = tr /\ d.index = e.msg.ifi_index
                    /\ \A d \in Before(n).made : d.name = a.dev => d.index # e.msg.ifi_index

RejectedReply(r) == r.type = NLMSG_ERROR /\ r.error < 0

(* C4: a reply that is an error record with a negative code ends the run   *)
(* there: it is the last reply read, no request follows the one it         *)
(* answers, the process terminates with NetlinkRejected and that code, and *)
(* the step that reads it leaves every interface where it was.             *)
C4_RejectAborts ==
    /\ [](\A k \in 1 .. Len(recvd) :
            RejectedReply(recvd[k]) =>
                /\ k = Len(recvd)
                /\ Len(sent) = k
                /\ pc = "exited"
                /\ err = [kind |-> "NetlinkRejected", code |-> -recvd[k].error])
    /\ [][(pc' = "exited" /\ pc # "exited") =>
            (sent' = sent /\ links' = links /\ nslinks' = nslinks)]_vars

\* the second action's request was refused after the first action's
\* interface had been moved
C4_Witness ==
    /\ pc = "exited"
    /\ err.kind = "NetlinkRejected"
    /\ Len(recvd) >= 2
    /\ nslinks # {}
    /\ Len(i) >= 1

(* C5: the run ends with InterfaceNotFound exactly when the lookup of an   *)
(* action's source name (MOVE: the interface, MACVLAN: the master) finds   *)
(* no interface of that name at that moment, and then no request of that   *)
(* action has been sent.                                                   *)
C5_NotFound ==
    /\ \A k \in 1 .. Len(lookups) :
        (lookups[k].why = "source" /\ ~lookups[k].present) =>
            /\ k = Len(lookups)
            /\ pc = "exited"
            /\ err.kind = "InterfaceNotFound"
            /\ \A n \in 1 .. Len(sent) : sent[n].at < k
    /\ err.kind = "InterfaceNotFound" =>
            /\ Len(lookups) > 0
            /\ lookups[Len(lookups)].why = "source"
            /\ ~lookups[Len(lookups)].present
            /\ lookups[Len(lookups)].name = Head(i).dev
            /\ Head(i).type \in {"MOVE", "MACVLAN"}

\* the second action's source was not found after the first was processed
C5_Witness ==
    /\ err.kind = "InterfaceNotFound"
    /\ Len(Moves) = 1
    /\ Len(i) = 1

IsUp(e) == e.op = "if_up"

UpOf(c) == SelectSeq(sent, LAMBDA e : e.call = c)

(* C6: setup_loopback sends one request: index 1, flags and change mask    *)
(* IFF_UP, no attribute; it looks no name up and the pending list is the   *)
(* same after every one of its steps.                                      *)
C6_Loopback ==
    /\ [](\A c \in 1 .. Len(calls) :
            calls[c].fn = "setup_loopback" =>
                /\ Len(UpOf(c)) <= 1
                /\ (c < Len(calls) \/ pc \in {"idle", "up_recv"}) => Len(UpOf(c)) = 1
                /\ \A n \in 1 .. Len(UpOf(c)) :
                    LET e == UpOf(c)[n]
                    IN  /\ e.op = "if_up"
                        /\ e.msg.ifi_index = LOOPBACK_INDEX
                        /\ e.msg.ifi_flags = IFF_UP
                        /\ e.msg.ifi_change = IFF_UP
                        /\ e.msg.nlmsg_len = NLMSG_HDRLEN + SIZEOF_IFINFOMSG
                        /\ TopAttrs(e.msg) = <<>>
                        /\ e.msg.hw = 0
                        /\ e.at = calls[c].at)
    /\ [][(pc \in {"up", "up_recv"} \/ pc' \in {"up", "up_recv"}) =>
            (netifs' = netifs /\ lookups' = lookups /\ registered' = registered
             /\ err'.kind # "InterfaceNotFound")]_vars

\* setup_loopback returned with actions pending
C6_Witness ==
    /\ pc = "idle"
    /\ err = NoErr
    /\ Len(calls) >= 1
    /\ calls[Len(calls)].fn = "setup_loopback"
    /\ Len(UpOf(Len(calls))) = 1
    /\ netifs # <<>>

----------------------------------------------------------------------------
(* The builders' statements, measured without the encoder *)

\* what a statement adds to the message: a padded attribute, a bare
\* attribute header, nothing, or the bytes it skips
Size(st) ==
    CASE st.op = "append" -> Align4(4 + st.n)
      [] st.op = "start" -> 4
      [] st.op = "end" -> 0
      [] OTHER -> st.n

RECURSIVE SumSize(_, _)
SumSize(p, k) == IF k = 0 THEN 0 ELSE SumSize(p, k - 1) + Size(p[k])

\* the end of the message before statement k: header, body, statements 1 .. k-1
Off(p, k) == 16 + 16 + SumSize(p, k - 1)

\* the statement that opened the region statement k closes
StartOf(p, k) == CHOOSE n \in 1 .. k - 1 : p[n].op = "start" /\ p[n].slot = p[k].slot

Wrote(st) == st.op \in {"append", "start"}

(* C7: in every builder the total length is, after each statement, the     *)
(* base length plus the padded sizes of all it has put in (the veth peer's *)
(* embedded body included), and right after an attribute is appended it is *)
(* a multiple of 4 and the padded end of the last byte written.            *)
C7_TotalLength ==
    bstate # "off" =>
        /\ req.nlmsg_len = Off(prog, ip + 1)
        /\ (ip >= 1 /\ Wrote(prog[ip])) =>
            /\ req.nlmsg_len % 4 = 0
            /\ req.hw = Off(prog, ip) + 4 + prog[ip].n
            /\ req.nlmsg_len = Align4(req.hw)

\* the inward name of a veth request was appended after the embedded body
C7_Witness ==
    /\ bstate = "building"
    /\ Len(prog) = 10
    /\ ip = 6
    /\ prog[5].op = "grow"
    /\ req.nlmsg_len > 16 + 16 + 16

(* C8: an attribute appended with a payload of L bytes has the length      *)
(* field 4 + L, its payload reads back as the L bytes given, and the total *)
(* length has advanced by 4 + L rounded up to a multiple of 4.             *)
C8_RoundTrip ==
    (bstate # "off" /\ ip >= 1 /\ Wrote(prog[ip])) =>
        LET at == Off(prog, ip)
        IN  /\ RtaLen(req, at) = 4 + prog[ip].n
            /\ RtaType(req, at) = prog[ip].attr
            /\ RtaPayload(req, at) = prog[ip].d
            /\ req.nlmsg_len - at = Align4(4 + prog[ip].n)

(* C9: once a nested region is closed its length field is the span from    *)
(* its own start to the end of the message at that moment, at depth 1      *)
(* (macvlan link-info), 2 and 3 (veth info-data and peer); the veth peer   *)
(* spans its header, the embedded body and the inward name, and each       *)
(* enclosing region covers its header and what it contains.                *)
C9_NestedSpan ==
    bstate # "off" =>
        /\ \A k \in 1 .. ip :
            prog[k].op = "end" =>
                /\ RtaLen(req, Off(prog, StartOf(prog, k)))
                        = Off(prog, k + 1) - Off(prog, StartOf(prog, k))
                /\ k = ip => RtaLen(req, cursor[prog[k].slot])
                                = req.nlmsg_len - cursor[prog[k].slot]
        /\ (Len(prog) = 10 /\ ip >= 9) =>
            LET info == Off(prog, 1)
                data == Off(prog, 3)
                peer == Off(prog, 4)
            IN  /\ RtaLen(req, peer) = 4 + 16 + Align4(4 + prog[6].n)
                /\ RtaLen(req, data) >= 4 + Align4(RtaLen(req, peer))
                /\ RtaLen(req, info) >= 4 + Align4(4 + prog[2].n) + Align4(RtaLen(req, data))

\* the three regions of a veth request are closed
C9_Witness ==
    /\ bstate = "building"
    /\ Len(prog) = 10
    /\ ip = 9
    /\ prog[7].op = "end" /\ prog[8].op = "end" /\ prog[9].op = "end"

(* C10: no builder writes a byte at or past offset NLMSG_GOOD_SIZE of its  *)
(* buffer, nor lets the total length pass it, whatever the names' lengths. *)
C10_Capacity ==
    bstate # "off" =>
        /\ req.hw <= NLMSG_GOOD_SIZE
        /\ req.nlmsg_len <= NLMSG_GOOD_SIZE

----------------------------------------------------------------------------
InRecv == pc \in {"macvlan_recv", "veth_recv", "move_recv", "up_recv"}

(* C11: requests and replies alternate, a request first: at most one       *)
(* request is unanswered at any time, the socket's queue holds the reply   *)
(* to that request and nothing else, a request is sent only when every     *)
(* earlier one has had its reply read, and a reply is read only for the    *)
(* one request outstanding.                                                *)
C11_Alternate ==
    /\ [](/\ Len(sent) - Len(recvd) \in {0, 1}
          /\ Len(rcvq) = Len(sent) - Len(recvd)
          /\ InRecv <=> (pc # "exited" /\ Len(sent) = Len(recvd) + 1))
    /\ [][(sent' # sent =>
                (Len(sent) = Len(recvd) /\ recvd' = recvd
                 /\ sent' = Append(sent, sent'[Len(sent')])))
           /\ (recvd' # recvd =>
                (Len(sent) = Len(recvd) + 1 /\ sent' = sent
                 /\ recvd' = Append(recvd, Head(rcvq))))]_vars

\* a drain of two actions, one of them with a create exchange, has returned
C11_Witness ==
    /\ pc = "idle"
    /\ err = NoErr
    /\ Len(calls) = 1
    /\ Len(sent) = 3
    /\ Len(recvd) = 3

(* C12: when a call has ended, by returning or by terminating the process *)
(* on a failed lookup, a failed socket call or a rejected request, the     *)
(* socket it opened is closed and every request buffer it allocated is     *)
(* freed.                                                                  *)
C12_Released ==
    /\ pc = "idle" => (sock = "closed" /\ reqs = 0)
    /\ pc = "exited" => (sock = "closed" /\ reqs = 0)

(* C13: a registration sends nothing, looks nothing up, opens no socket    *)
(* and leaves the kernel's interfaces as they are; it changes the pending  *)
(* list only, which gains the one action registered, the actions pending   *)
(* before staying in it in the same order.                                 *)
C13_RegisterOnly ==
    [][registered' # registered =>
        /\ UNCHANGED <<sent, recvd, rcvq, lookups, calls, sock, reqs, links, nslinks>>
        /\ UNCHANGED <<pc, err, i, pid, if_index>>
        /\ Len(netifs') = Len(netifs) + 1
        /\ Tail(netifs') = netifs
        /\ LET a == registered'[Len(registered')]
           IN  Head(netifs') = [type |-> a.type, dev |-> a.dev, name |-> a.name]]_vars

\* two actions are pending, the one registered first behind the other
C13_Witness ==
    /\ Len(registered) = 2
    /\ Len(netifs) = 2
    /\ netifs[2].name = registered[1].name
    /\ netifs[1].name = registered[2].name
    /\ netifs[1].name # netifs[2].name

\* the registered action the n-th request belongs to: one more than the
\* move-and-rename requests sent before it
ActionOf(n) == registered[Count(SubSeq(sent, 1, n - 1), IsMove) + 1]

\* the transient name of the call the n-th request belongs to
TransientOf(n) == TransientName(calls[sent[n].call].pid)

\* the lookups made so far for the request that comes next: none yet, or
\* the one lookup the n-th request is sent after
SourceLookup(n) == lookups[sent[n].at]

(* C14: a MACVLAN action goes: lookup of the master, create request naming *)
(* the master's index and the transient name, its reply, lookup of the     *)
(* transient name, move-and-rename request with the action's name; a VETH  *)
(* action goes: create request with no lookup before it, its reply, lookup *)
(* of the transient name, move-and-rename request.  No request follows a   *)
(* lookup of a master that found nothing, and a move-and-rename request of *)
(* such an action follows a create request whose reply was not a refusal.  *)
C14_StepOrder ==
    /\ \A n \in 1 .. Len(sent) :
        LET e == sent[n]
            a == ActionOf(n)
            first == (n = 1 \/ sent[n - 1].call # e.call \/ IsMove(sent[n - 1]))
            since == IF n = 1 \/ sent[n - 1].call # e.call
                     THEN calls[e.call].at ELSE sent[n - 1].at
        IN  /\ e.op = "create_macvlan" =>
                /\ a.type = "MACVLAN" /\ first
                /\ e.at = since + 1
                /\ SourceLookup(n).why = "source"
                /\ SourceLookup(n).name = a.dev
                /\ SourceLookup(n).present
                /\ LET top == TopAttrs(e.msg)
                   IN  /\ U32Of(RtaPayload(e.msg, Get(top, IFLA_LINK).off)) = SourceLookup(n).index
                       /\ StrOf(RtaPayload(e.msg, Get(top, IFLA_IFNAME).off)) = TransientOf(n)
            /\ e.op = "create_veth_pair" =>
                /\ a.type = "VETH" /\ first
                /\ e.at = since
            /\ (e.op = "move_and_rename_if" /\ a.type = "MOVE") =>
                /\ first
                /\ e.at = since + 1
                /\ SourceLookup(n).why = "source"
                /\ SourceLookup(n).name = a.dev
            /\ (e.op = "move_and_rename_if" /\ a.type \in {"MACVLAN", "VETH"}) =>
                /\ ~first
                /\ IsCreate(sent[n - 1])
                /\ ~RejectedReply(recvd[n - 1])
                /\ e.at = sent[n - 1].at + 1
                /\ lookups[e.at].why = "transient"
                /\ lookups[e.at].name = TransientOf(n)
                /\ SentName(e.msg) = a.name
    /\ \A k \in 1 .. Len(lookups) :
        (lookups[k].why = "source" /\ ~lookups[k].present) =>
            \A n \in 1 .. Len(sent) : sent[n].at < k
    /\ pc = "macvlan" =>
            /\ lookups[Len(lookups)].why = "source"
            /\ lookups[Len(lookups)].present
            /\ \A n \in 1 .. Len(sent) : sent[n].at < Len(lookups)
    /\ pc = "relookup" =>
            /\ Len(recvd) = Len(sent)
            /\ IsCreate(sent[Len(sent)])
            /\ ~RejectedReply(recvd[Len(recvd)])
            /\ Len(lookups) = sent[Len(sent)].at
    /\ (pc = "move" /\ Head(i).type \in {"MACVLAN", "VETH"}) =>
            /\ Len(recvd) = Len(sent)
            /\ IsCreate(sent[Len(sent)])
            /\ Len(lookups) = sent[Len(sent)].at + 1
            /\ lookups[Len(lookups)].why = "transient"

\* a MACVLAN action and then a VETH action went through all their steps
C14_Witness ==
    /\ pc = "idle"
    /\ err = NoErr
    /\ Len(sent) = 4
    /\ sent[1].op = "create_macvlan"
    /\ sent[2].op = "move_and_rename_if"
    /\ sent[3].op = "create_veth_pair"
    /\ sent[4].op = "move_and_rename_if"
    /\ Len(lookups) = 3

\* where a builder's caller goes on when the builder returns
AfterReturn ==
    CASE pc \in {"macvlan_recv", "veth_recv"} -> "relookup"
      [] pc = "move_recv" -> "loop"
      [] OTHER -> "idle"

(* C15: what follows an exchange depends on the reply alone: the run ends  *)
(* with NetlinkRejected and the code exactly when the reply is an error    *)
(* record with a negative code; after an error record with code 0 or a     *)
(* message of another kind, whatever its bytes, the call goes on with its  *)
(* next step.                                                              *)
C15_ReplyDecides ==
    /\ [](/\ \A k \in 1 .. Len(recvd) :
                RejectedReply(recvd[k]) <=>
                    (k = Len(recvd) /\ err.kind = "NetlinkRejected")
          /\ err.kind = "NetlinkRejected" =>
                /\ pc = "exited"
                /\ Len(recvd) = Len(sent)
                /\ err.code = -recvd[Len(recvd)].error)
    /\ [][recvd' # recvd =>
            LET r == recvd'[Len(recvd')]
            IN  IF r.type = NLMSG_ERROR /\ r.error < 0
                THEN pc' = "exited" /\ err' = [kind |-> "NetlinkRejected", code |-> -r.error]
                ELSE pc' = AfterReturn /\ err' = err]_vars

\* a reply that was no error record, with a negative number where the code
\* would be, was followed by the next exchange
C15_Witness ==
    \E k \in 1 .. Len(recvd) :
        /\ recvd[k].type # NLMSG_ERROR
        /\ recvd[k].error < 0
        /\ Len(sent) > k

(* C16: every request sent has type RTM_NEWLINK, sequence number 1 and the *)
(* flags NLM_F_REQUEST and NLM_F_ACK; NLM_F_CREATE and NLM_F_EXCL are set  *)
(* on the two create requests and on no other; a create request has       *)
(* interface index 0 in its body.                                          *)
C16_Headers ==
    \A n \in 1 .. Len(sent) :
        LET m == sent[n].msg
        IN  /\ m.nlmsg_type = RTM_NEWLINK
            /\ m.nlmsg_seq = 1
            /\ {"NLM_F_REQUEST", "NLM_F_ACK"} \subseteq m.nlmsg_flags
            /\ IF IsCreate(sent[n])
               THEN m.nlmsg_flags = {"NLM_F_REQUEST", "NLM_F_ACK", "NLM_F_CREATE", "NLM_F_EXCL"}
               ELSE m.nlmsg_flags = {"NLM_F_REQUEST", "NLM_F_ACK"}
            /\ IsCreate(sent[n]) => m.ifi_index = 0

RECURSIVE OpenAfter(_, _)
\* the regions open after the first k statements, the latest opened last
OpenAfter(p, k) ==
    IF k = 0 THEN <<>>
    ELSE LET before == OpenAfter(p, k - 1)
         IN  CASE p[k].op = "start" -> Append(before, p[k].slot)
               [] p[k].op = "end" -> SelectSeq(before, LAMBDA s : s # p[k].slot)
               [] OTHER -> before

\* the statements that open or close a region, in program order
Brackets(p) == SelectSeq(p, LAMBDA st : st.op \in {"start", "end"})

(* C17: a builder closes the region it opened last: the region closed is   *)
(* open, starts after every other open region and is closed once; no       *)
(* region is open when the last statement has run and the message goes to  *)
(* nl_send.  The veth builder opens link-info, info-data, peer, closes     *)
(* peer, info-data, link-info, and appends the outward name after that.    *)
C17_Lifo ==
    bstate # "off" =>
        /\ \A k \in 1 .. ip :
            prog[k].op = "end" =>
                LET open == OpenAfter(prog, k - 1)
                IN  /\ open # <<>>
                    /\ open[Len(open)] = prog[k].slot
                    /\ \A j \in 1 .. k - 1 :
                        prog[j].op = "end" => prog[j].slot # prog[k].slot
        /\ (ip >= 1 /\ prog[ip].op = "end") =>
                \A n \in 1 .. Len(OpenAfter(prog, ip)) :
                    /\ cursor[OpenAfter(prog, ip)[n]] >= 0
                    /\ cursor[OpenAfter(prog, ip)[n]] < cursor[prog[ip].slot]
        /\ ip = Len(prog) => OpenAfter(prog, ip) = <<>>
        /\ (job.fn = "create_veth_pair" /\ ip = Len(prog)) =>
                /\ [n \in 1 .. Len(Brackets(prog)) |->
                        <<Brackets(prog)[n].op, Brackets(prog)[n].attr, Brackets(prog)[n].slot>>]
                    = << <<"start", IFLA_LINKINFO, "nested_info">>,
                         <<"start", IFLA_INFO_DATA, "nested_data">>,
                         <<"start", VETH_INFO_PEER, "nested_peer">>,
                         <<"end", 0, "nested_peer">>,
                         <<"end", 0, "nested_data">>,
                         <<"end", 0, "nested_info">> >>
                /\ prog[Len(prog)].op = "append"
                /\ prog[Len(prog)].attr = IFLA_IFNAME
                /\ prog[Len(prog)].d = CStr(NameOf(job.name))
                /\ prog[Len(prog) - 1] = StEnd("nested_info")

\* the veth builder has run its last statement
C17_Witness ==
    /\ bstate = "building"
    /\ job.fn = "create_veth_pair"
    /\ job.name = "v0"
    /\ ip = Len(prog)
    /\ cursor["nested_info"] < cursor["nested_data"]
    /\ cursor["nested_data"] < cursor["nested_peer"]

(* C18: no move-and-rename request carries interface index 0, and none is  *)
(* sent after a lookup of the transient name that found no interface: the  *)
(* process has terminated with that lookup as its last one.                *)
C18_NoIndexZero ==
    /\ \A n \in 1 .. Len(sent) :
        IsMove(sent[n]) =>
            /\ sent[n].msg.ifi_index # 0
            /\ lookups[sent[n].at].index # 0
    /\ \A k \in 1 .. Len(lookups) :
        (lookups[k].why = "transient" /\ lookups[k].index = 0) =>
            /\ k = Len(lookups)
            /\ pc \in {"relookup", "move", "exited"}
            /\ \A n \in 1 .. Len(sent) : sent[n].at < k

\* the interfaces that creates sent earlier in the running call made and that
\* are still in the caller's namespace
OwnLeft ==
    {d \in links : \E m \in 1 .. Len(sent) :
        /\ IsCreate(sent[m])
        /\ sent[m].call = Len(calls)
        /\ d \in sent[m].made}

\* a step that sends a create request
SendsCreate == sent' # sent /\ IsCreate(sent'[Len(sent')])

(* C19 as stated: when a create request is sent, no interface made by an   *)
(* earlier create of the same do_netif call carries the transient name in  *)
(* the caller's namespace, and none carries any name the request asks for, *)
(* so that no create fails on what the call itself made before.            *)
C19_NoOwnClash ==
    [][SendsCreate =>
        \A d \in OwnLeft :
            /\ d.name # TransientName(pid)
            /\ d.name # SentName(sent'[Len(sent')].msg)]_vars

(* C19: when a create request is sent, every interface that an earlier     *)
(* create of the same do_netif call made under the transient name has left *)
(* the caller's namespace for the target's, under the name its action      *)
(* asked for, and no interface of the caller's namespace carries the       *)
(* transient name, so that the create cannot fail on it.                   *)
C19_TransientFree ==
    [][SendsCreate =>
        /\ \A d \in OwnLeft : d.name # TransientName(pid)
        /\ \A m \in 1 .. Len(sent) :
            (IsCreate(sent[m]) /\ sent[m].call = Len(calls)) =>
                \A d \in sent[m].made :
                    d.name = TransientName(pid) =>
                        /\ IsMove(sent[m + 1])
                        /\ \E x \in nslinks :
                            /\ x.was = d.index
                            /\ x.pid = pid
                            /\ x.name = SentName(sent[m + 1].msg)
        /\ \A l \in links : l.name # TransientName(pid)]_vars

\* a second create of one call has made its interface under the transient name
C19_Witness ==
    \E m, n \in 1 .. Len(sent) :
        /\ m < n
        /\ IsCreate(sent[m])
        /\ IsCreate(sent[n])
        /\ sent[m].call = sent[n].call
        /\ \E d \in sent[m].made : d.name = TransientName(pid)
        /\ \E d \in sent[n].made : d.name = TransientName(pid) /\ d \in links

====
